---- MODULE Spec2Model ----
(***************************************************************************)
(* A model of plasma_core/block.py: the Block class, its derived           *)
(* properties (encoded, hash, signer, merklized_transaction_set, root,     *)
(* is_deposit_block) and its sign method, together with the Python heap    *)
(* objects the constructor's arguments refer to.                           *)
(*                                                                         *)
(* Python lists are reference objects: `lists` is the heap of list         *)
(* objects and a block's transaction_set field holds a reference into it.  *)
(* The default value of the constructor's transaction_set parameter is one *)
(* list object, created when the function is defined (reference            *)
(* DefaultList).                                                           *)
(*                                                                         *)
(* The collaborators imported by block.py (plasma_core.transaction,        *)
(* plasma_core.utils.signatures, plasma_core.utils.merkle.fixed_merkle,    *)
(* plasma_core.constants) are modelled from their written interface.       *)
(* Hashing is symbolic and collision free: the digest of x is [pre |-> x]. *)
(***************************************************************************)
EXTENDS Integers, Sequences, FiniteSets, TLC

VARIABLES lists, blocks, last

vars == <<lists, blocks, last>>

(***************************** bounds **************************************)
\* Longest transaction list built in the single-instance specification.
MaxLen == 3
\* Longest transaction list built in the two-instance specification.
MaxLenPair == 1
\* Depth of the Merkle tree.  block.py fixes 16; every definition below is
\* parametric in the depth, and the model is explored with small depths so
\* that lists longer than 2^TreeDepth occur.
TreeDepth == 1

BlockIds == {1, 2}
Transactions == {"dep", "pay"}
Keys == {"k1", "k2"}
\* Block numbers tried: a negative one (big_endian_int refuses it), zero (the
\* empty byte string) and a positive one.
Numbers == {-1, 0, 1}

\* The list object bound to the constructor's default argument.
DefaultList == 0
ListRefs == {DefaultList} \cup BlockIds

RECURSIVE SeqsOfLen(_)
SeqsOfLen(n) ==
    IF n = 0 THEN {<<>>}
    ELSE {Append(s, t) : s \in SeqsOfLen(n - 1), t \in Transactions}

SeqsUpTo(n) == UNION {SeqsOfLen(k) : k \in 0 .. n}

(***************************** results ************************************)
\* A property access either returns a value or raises.
Ok(v) == [kind |-> "ok", val |-> v]
Err(e) == [kind |-> e, val |-> <<>>]

(***************************** hashing ************************************)
\* utils.sha3: symbolic, collision free.
sha3(x) == [pre |-> x]

(***************************** RLP ****************************************)
RECURSIVE BigEndian(_)
\* big_endian_int: minimal big-endian bytes, zero is the empty string.
BigEndian(n) ==
    IF n = 0 THEN <<>> ELSE BigEndian(n \div 256) \o <<n % 256>>

RlpLength(len, offset) ==
    IF len < 56 THEN <<offset + len>>
    ELSE LET bl == BigEndian(len) IN <<offset + 55 + Len(bl)>> \o bl

RlpString(s) ==
    IF Len(s) = 1 /\ s[1] < 128 THEN s ELSE RlpLength(Len(s), 128) \o s

RECURSIVE Concat(_)
Concat(items) ==
    IF items = <<>> THEN <<>> ELSE Head(items) \o Concat(Tail(items))

RlpList(items) ==
    LET payload == Concat(items) IN RlpLength(Len(payload), 192) \o payload

(***************************** Transaction ********************************)
\* The transaction's own canonical encoding (opaque to the block), by
\* transaction.
TxEncoding ==
    [tx \in Transactions |->
        RlpList(<<RlpString(BigEndian(IF tx = "dep" THEN 1 ELSE 2))>>)]

TxEncoded(tx) == TxEncoding[tx]

is_deposit(tx) == tx = "dep"

\* The leaf hash of each transaction: the hash of its encoding.
TxLeafHash == [tx \in Transactions |-> sha3(TxEncoding[tx])]

merkle_hash(tx) == TxLeafHash[tx]

(***************************** signatures *********************************)
NoDigest == [pre |-> <<>>]

NULL_SIGNATURE == [digest |-> NoDigest, key |-> "null"]

address_of(key) == [owner |-> key]

\* What recovery yields for a signature made over another digest.
IndeterminateAddress == [owner |-> "indeterminate"]

\* signatures.sign(hash, key)
sign(h, key) == [digest |-> h, key |-> key]

\* signatures.get_signer(hash, sig)
get_signer(h, sig) ==
    IF sig = NULL_SIGNATURE THEN Err("InvalidSignature")
    ELSE IF sig.digest = h THEN Ok(address_of(sig.key))
    ELSE Ok(IndeterminateAddress)

(***************************** FixedMerkle ********************************)
PaddingLeaf == [pre |-> <<-1>>]

RECURSIVE Pow2(_)
Pow2(d) == IF d = 0 THEN 1 ELSE 2 * Pow2(d - 1)

RECURSIVE MerkleRoot(_)
\* Bottom-up: each node is the hash of left || right.
MerkleRoot(nodes) ==
    IF Len(nodes) = 1 THEN nodes[1]
    ELSE MerkleRoot([i \in 1 .. (Len(nodes) \div 2) |->
                        sha3(<<nodes[2 * i - 1], nodes[2 * i]>>)])

FixedMerkle(depth, leaves) ==
    IF Len(leaves) > Pow2(depth) THEN Err("TreeDepthExceeded")
    ELSE LET padded == [i \in 1 .. Pow2(depth) |->
                           IF i <= Len(leaves) THEN leaves[i] ELSE PaddingLeaf]
         IN  Ok([depth |-> depth, leaves |-> padded, root |-> MerkleRoot(padded)])

(***************************** Block ***************************************)
NoBlock ==
    [live |-> FALSE, transaction_set |-> DefaultList,
     sig |-> NULL_SIGNATURE, number |-> 0]

\* self, as a method of block b sees it: the fields, with transaction_set
\* followed to the list object it refers to.
Self(b) ==
    [transaction_set |-> lists[blocks[b].transaction_set],
     sig |-> blocks[b].sig,
     number |-> blocks[b].number]

\* self in the state a step leads to.
SelfNext(b) ==
    [transaction_set |-> lists'[blocks'[b].transaction_set],
     sig |-> blocks'[b].sig,
     number |-> blocks'[b].number]

\* UnsignedBlockRLP.serialize(UnsignedBlockRLP(transaction_set, number))
UnsignedBlockRLP(txs, number) ==
    IF number < 0 THEN Err("EncodingError")
    ELSE Ok(RlpList(<<RlpList([i \in 1 .. Len(txs) |-> TxEncoded(txs[i])]),
                      RlpString(BigEndian(number))>>))

\* Faulty variant of encoded: the signature is serialized as a third field.
encoded_with_sig(self) ==
    LET e == UnsignedBlockRLP(self.transaction_set, self.number)
        s == IF self.sig = NULL_SIGNATURE THEN <<>>
             ELSE IF self.sig.key = "k1" THEN <<1>> ELSE <<2>>
    IN  IF e.kind # "ok" THEN e ELSE Ok(e.val \o RlpString(s))

encoded(self) == UnsignedBlockRLP(self.transaction_set, self.number)

hash(self) ==
    LET e == encoded(self)
    IN  IF e.kind # "ok" THEN [kind |-> e.kind, val |-> NoDigest]
        ELSE Ok(sha3(e.val))

\* Faulty variant of signer: a failed recovery is swallowed and an address
\* is returned.
signer_swallowing_errors(self) ==
    LET h == hash(self)
    IN  IF h.kind # "ok" THEN [kind |-> h.kind, val |-> IndeterminateAddress]
        ELSE LET r == get_signer(h.val, self.sig)
             IN  IF r.kind # "ok" THEN Ok(IndeterminateAddress) ELSE r

\* Faulty variant of signer: recovery runs against the digest the signature
\* was made over (a hash kept from signing time), not the current hash.
signer_of_signed_digest(self) ==
    LET h == hash(self)
    IN  IF h.kind # "ok" THEN [kind |-> h.kind, val |-> IndeterminateAddress]
        ELSE LET r == get_signer(self.sig.digest, self.sig)
             IN  IF r.kind # "ok"
                 THEN [kind |-> r.kind, val |-> IndeterminateAddress]
                 ELSE r

signer(self) ==
    LET h == hash(self)
    IN  IF h.kind # "ok" THEN [kind |-> h.kind, val |-> IndeterminateAddress]
        ELSE LET r == get_signer(h.val, self.sig)
             IN  IF r.kind # "ok"
                 THEN [kind |-> r.kind, val |-> IndeterminateAddress]
                 ELSE r

\* Faulty variant of merklized_transaction_set: the leaf hashes are put in
\* sorted order before the tree is built.
merklized_sorted(self) ==
    LET txs == self.transaction_set
        deposits == Cardinality({i \in 1 .. Len(txs) : txs[i] = "dep"})
        hashed_transactions ==
            [i \in 1 .. Len(txs) |->
                merkle_hash(IF i <= deposits THEN "dep" ELSE "pay")]
    IN  FixedMerkle(TreeDepth, hashed_transactions)

\* Faulty variant of merklized_transaction_set: the leaf hashes are cut to
\* the tree's capacity.
merklized_truncated(self) ==
    LET txs == self.transaction_set
        n == IF Len(txs) > Pow2(TreeDepth) THEN Pow2(TreeDepth) ELSE Len(txs)
        hashed_transactions == [i \in 1 .. n |-> merkle_hash(txs[i])]
    IN  FixedMerkle(TreeDepth, hashed_transactions)

merklized_transaction_set(self) ==
    LET hashed_transactions ==
            [i \in 1 .. Len(self.transaction_set) |->
                merkle_hash(self.transaction_set[i])]
    IN  FixedMerkle(TreeDepth, hashed_transactions)

root(self) ==
    LET t == merklized_transaction_set(self)
    IN  IF t.kind # "ok" THEN [kind |-> t.kind, val |-> NoDigest]
        ELSE Ok(t.val.root)

\* Faulty variant of is_deposit_block: only the first transaction is looked at.
is_deposit_block_first_only(self) ==
    Len(self.transaction_set) >= 1 /\ is_deposit(self.transaction_set[1])

is_deposit_block(self) ==
    Len(self.transaction_set) = 1 /\ is_deposit(self.transaction_set[1])

(***************************** operations **********************************)
Did(op, b, arg, out) == last' = [op |-> op, b |-> b, arg |-> arg, out |-> out]

\* Block.__init__: the fields are bound to the arguments as given.
Block_init(b, ref, sig, number) ==
    /\ ~blocks[b].live
    /\ blocks' = [blocks EXCEPT ![b] =
                    [live |-> TRUE, transaction_set |-> ref,
                     sig |-> sig, number |-> number]]

\* Block(): every argument takes its default.
ConstructDefault(b) ==
    /\ Block_init(b, DefaultList, NULL_SIGNATURE, 0)
    /\ UNCHANGED lists
    /\ Did("Block()", b, 0, Ok(0))

\* Block(transaction_set=[...], number=n): the caller passes a new list.
ConstructWith(b, txs, n) ==
    /\ lists' = [lists EXCEPT ![b] = txs]
    /\ Block_init(b, b, NULL_SIGNATURE, n)
    /\ Did("Block(txs, n)", b, n, Ok(0))

\* block.transaction_set.append(tx)
AddTransaction(b, tx, maxLen) ==
    /\ blocks[b].live
    /\ Len(Self(b).transaction_set) < maxLen
    /\ lists' = [lists EXCEPT ![blocks[b].transaction_set] = Append(@, tx)]
    /\ UNCHANGED blocks
    /\ Did("append", b, tx, Ok(0))

\* block.transaction_set[i] = tx
ReplaceTransaction(b, i, tx) ==
    /\ blocks[b].live
    /\ i \in 1 .. Len(Self(b).transaction_set)
    /\ Self(b).transaction_set[i] # tx
    /\ lists' = [lists EXCEPT ![blocks[b].transaction_set][i] = tx]
    /\ UNCHANGED blocks
    /\ Did("replace", b, 0, Ok(0))

\* ts[i], ts[j] = ts[j], ts[i]
SwapTransactions(b, i, j) ==
    /\ blocks[b].live
    /\ i \in 1 .. Len(Self(b).transaction_set)
    /\ j \in 1 .. Len(Self(b).transaction_set)
    /\ i < j
    /\ Self(b).transaction_set[i] # Self(b).transaction_set[j]
    /\ lists' = [lists EXCEPT ![blocks[b].transaction_set] =
                    [@ EXCEPT ![i] = Self(b).transaction_set[j],
                              ![j] = Self(b).transaction_set[i]]]
    /\ UNCHANGED blocks
    /\ Did("swap", b, 0, Ok(0))

\* block.number = n
SetNumber(b, n) ==
    /\ blocks[b].live
    /\ blocks[b].number # n
    /\ blocks' = [blocks EXCEPT ![b].number = n]
    /\ UNCHANGED lists
    /\ Did("number", b, n, Ok(0))

\* Faulty variant of Block.sign: the Merkle root is signed, not the hash.
Block_sign_root(b, key) ==
    /\ blocks[b].live
    /\ LET h == hash(Self(b))
           r == root(Self(b))
       IN  IF h.kind # "ok" \/ r.kind # "ok"
           THEN /\ UNCHANGED blocks
                /\ Did("sign", b, key,
                       [kind |-> IF h.kind # "ok" THEN h.kind ELSE r.kind,
                        val |-> 0])
           ELSE /\ blocks' = [blocks EXCEPT ![b].sig = sign(r.val, key)]
                /\ Did("sign", b, key, Ok(0))
    /\ UNCHANGED lists

\* Faulty variant of Block.sign: sig is reset before the hash is computed.
Block_sign_reset_first(b, key) ==
    /\ blocks[b].live
    /\ LET h == hash(Self(b))
       IN  IF h.kind # "ok"
           THEN /\ blocks' = [blocks EXCEPT ![b].sig = NULL_SIGNATURE]
                /\ Did("sign", b, key, [kind |-> h.kind, val |-> 0])
           ELSE /\ blocks' = [blocks EXCEPT ![b].sig = sign(h.val, key)]
                /\ Did("sign", b, key, Ok(0))
    /\ UNCHANGED lists

\* Faulty variant of Block.sign: when hashing fails, a signature over an
\* empty digest is stored before the error is raised.
Block_sign_partial(b, key) ==
    /\ blocks[b].live
    /\ LET h == hash(Self(b))
       IN  IF h.kind # "ok"
           THEN /\ blocks' = [blocks EXCEPT ![b].sig = sign(NoDigest, key)]
                /\ Did("sign", b, key, [kind |-> h.kind, val |-> 0])
           ELSE /\ blocks' = [blocks EXCEPT ![b].sig = sign(h.val, key)]
                /\ Did("sign", b, key, Ok(0))
    /\ UNCHANGED lists

\* Block.sign: the right-hand side is evaluated first; if it raises, the
\* assignment does not happen.
Block_sign(b, key) ==
    /\ blocks[b].live
    /\ LET h == hash(Self(b))
       IN  IF h.kind # "ok"
           THEN /\ UNCHANGED blocks
                /\ Did("sign", b, key, [kind |-> h.kind, val |-> 0])
           ELSE /\ blocks' = [blocks EXCEPT ![b].sig = sign(h.val, key)]
                /\ Did("sign", b, key, Ok(0))
    /\ UNCHANGED lists

ReadEncoded(b) ==
    /\ blocks[b].live
    /\ Did("encoded", b, 0, encoded(Self(b)))
    /\ UNCHANGED <<lists, blocks>>

ReadHash(b) ==
    /\ blocks[b].live
    /\ Did("hash", b, 0, hash(Self(b)))
    /\ UNCHANGED <<lists, blocks>>

ReadSigner(b) ==
    /\ blocks[b].live
    /\ Did("signer", b, 0, signer(Self(b)))
    /\ UNCHANGED <<lists, blocks>>

ReadRoot(b) ==
    /\ blocks[b].live
    /\ Did("root", b, 0, root(Self(b)))
    /\ UNCHANGED <<lists, blocks>>

ReadIsDepositBlock(b) ==
    /\ blocks[b].live
    /\ Did("is_deposit_block", b, 0, Ok(is_deposit_block(Self(b))))
    /\ UNCHANGED <<lists, blocks>>

(***************************** specifications ******************************)
Init ==
    /\ lists = [r \in ListRefs |-> <<>>]
    /\ blocks = [b \in BlockIds |-> NoBlock]
    /\ last = [op |-> "none", b |-> 0, arg |-> 0, out |-> Ok(0)]

\* The operations of the class and the appends and assignments of its callers.
Core(b, maxLen) ==
    \/ ConstructDefault(b)
    \/ \E txs \in SeqsUpTo(maxLen), n \in Numbers : ConstructWith(b, txs, n)
    \/ \E tx \in Transactions : AddTransaction(b, tx, maxLen)
    \/ \E n \in Numbers : SetNumber(b, n)
    \/ \E key \in Keys : Block_sign(b, key)
    \/ ReadEncoded(b)
    \/ ReadHash(b)
    \/ ReadSigner(b)
    \/ ReadRoot(b)
    \/ ReadIsDepositBlock(b)

\* In-place edits of the transaction list by the caller.
Edit(b, maxLen) ==
    \/ \E i \in 1 .. maxLen, tx \in Transactions : ReplaceTransaction(b, i, tx)
    \/ \E i \in 1 .. maxLen, j \in 1 .. maxLen : SwapTransactions(b, i, j)

\* A program that uses one Block instance.
Next == Core(1, MaxLen) \/ Edit(1, MaxLen)

Spec == Init /\ [][Next]_vars

\* A program that uses two Block instances.
NextPair == \E b \in BlockIds : Core(b, MaxLenPair)

SpecPair == Init /\ [][NextPair]_vars

(***************************** properties **********************************)
Live(b) == blocks[b].live

Signed(b) == Live(b) /\ blocks[b].sig # NULL_SIGNATURE

Capacity == Pow2(TreeDepth)

LeafHashesOf(self) ==
    [i \in 1 .. Len(self.transaction_set) |-> merkle_hash(self.transaction_set[i])]

LeafHashes(b) == LeafHashesOf(Self(b))

LeafHashesNext(b) == LeafHashesOf(SelfNext(b))

Mutations == {"append", "replace", "swap", "number"}

\* C1: encoded and hash depend on (transaction_set, number) alone: every step
\* that changes the block's sig and leaves its transactions and number as
\* they were leaves encoded and hash as they were, and a call of sign, with
\* any key, never changes encoded or hash.
C1_EncodingIgnoresSignature ==
    [][\A b \in BlockIds :
          /\ (/\ Live(b)
              /\ blocks'[b].sig # blocks[b].sig
              /\ SelfNext(b).transaction_set = Self(b).transaction_set
              /\ blocks'[b].number = blocks[b].number)
             => (/\ encoded(SelfNext(b)) = encoded(Self(b))
                 /\ hash(SelfNext(b)) = hash(Self(b)))
          /\ (Live(b) /\ last'.op = "sign" /\ last'.b = b)
             => (/\ encoded(SelfNext(b)) = encoded(Self(b))
                 /\ hash(SelfNext(b)) = hash(Self(b)))]_vars

\* A block with transactions has just been signed with the second key.
C1_Witness ==
    /\ last.op = "sign" /\ last.out.kind = "ok" /\ last.arg = "k2"
    /\ Len(Self(last.b).transaction_set) > 0
    /\ blocks[last.b].sig = sign(hash(Self(last.b)).val, "k2")

\* C2: immediately after sign(k) has returned, signer is the address of k.
C2_SignatureRoundTrip ==
    (last.op = "sign" /\ last.out.kind = "ok")
        => signer(Self(last.b)) = Ok(address_of(last.arg))

\* sign(k2) has just returned on a block of two transactions.
C2_Witness ==
    /\ last.op = "sign" /\ last.out.kind = "ok" /\ last.arg = "k2"
    /\ Len(Self(last.b).transaction_set) = 2
    /\ signer(Self(last.b)).val = address_of("k2")

C4_DepositPredicate ==
    [][(last'.op = "is_deposit_block")
          => LET txs == Self(last'.b).transaction_set
             IN  /\ UNCHANGED <<lists, blocks>>
                 /\ last'.out.val =
                        (/\ Cardinality(DOMAIN txs) = 1
                         /\ \A i \in DOMAIN txs : is_deposit(txs[i]))
                 /\ Len(txs) # 1 => last'.out.val = FALSE]_vars

\* is_deposit_block has just returned false on a block of two deposits.
C4_Witness ==
    /\ last.op = "is_deposit_block"
    /\ Self(last.b).transaction_set = <<"dep", "dep">>
    /\ last.out.val = FALSE

\* C5: once a block is signed, no operation makes sig the null signature
\* again, and a later sign(key2) that returns leaves sig the signature of
\* key2 over the current hash.
C5_SignedStaysSigned ==
    [][\A b \in BlockIds :
          /\ Signed(b) => blocks'[b].sig # NULL_SIGNATURE
          /\ (Signed(b) /\ last'.op = "sign" /\ last'.b = b
                /\ last'.out.kind = "ok")
             => blocks'[b].sig = sign(hash(Self(b)).val, last'.arg)]_vars

\* A block signed over an earlier content has been signed again with key k2
\* or read: here root is read on a block still carrying k2's signature.
C5_Witness ==
    /\ last.op = "root"
    /\ Signed(last.b)
    /\ blocks[last.b].sig.key = "k2"

\* C6 as stated: an operation on one block leaves every other block's
\* transaction_set, number, sig, encoded, hash and root unchanged, and a
\* block constructed with no arguments starts with no transactions, number 0
\* and the null signature.
C6_NoSharedState ==
    [][/\ \A b \in BlockIds :
             (Live(b) /\ last'.b # b)
                 => /\ SelfNext(b).transaction_set = Self(b).transaction_set
                    /\ blocks'[b] = blocks[b]
                    /\ encoded(SelfNext(b)) = encoded(Self(b))
                    /\ hash(SelfNext(b)) = hash(Self(b))
                    /\ root(SelfNext(b)) = root(Self(b))
       /\ \A b \in BlockIds :
             (last'.op = "Block()" /\ last'.b = b)
                 => /\ SelfNext(b).transaction_set = <<>>
                    /\ blocks'[b].number = 0
                    /\ blocks'[b].sig = NULL_SIGNATURE]_vars

\* C7: root depends on the sequence of leaf hashes alone: a step that changes
\* the block's number or sig and leaves the leaf hashes as they were leaves
\* root as it was, and replacing a transaction by one with another
\* merkle_hash, or swapping two transactions with different merkle_hash,
\* changes the root (whenever the tree can be built).
C7_RootOfLeafHashes ==
    [][\A b \in BlockIds :
          /\ (/\ Live(b)
              /\ blocks'[b] # blocks[b]
              /\ LeafHashesNext(b) = LeafHashes(b))
             => root(SelfNext(b)) = root(Self(b))
          /\ (/\ Live(b) /\ last'.b = b /\ last'.op \in {"replace", "swap"}
              /\ LeafHashesNext(b) # LeafHashes(b)
              /\ root(Self(b)).kind = "ok")
             => (/\ root(SelfNext(b)).kind = "ok"
                 /\ root(SelfNext(b)).val # root(Self(b)).val)]_vars

\* Two transactions of a full tree have just been swapped.
C7_Witness ==
    /\ last.op = "swap"
    /\ Len(Self(last.b).transaction_set) = Capacity
    /\ root(Self(last.b)).kind = "ok"

\* C8: root returns a value for every transaction set of at most
\* 2^TreeDepth elements, the empty one included, and fails with
\* TreeDepthExceeded for every longer one.
C8_RootDefinedWithinDepth ==
    /\ \A b \in BlockIds :
          Live(b) =>
              /\ Len(Self(b).transaction_set) <= Capacity => root(Self(b)).kind = "ok"
              /\ Len(Self(b).transaction_set) > Capacity
                    => root(Self(b)).kind = "TreeDepthExceeded"
    /\ last.op = "root"
          => (last.out.kind = "ok") = (Len(Self(last.b).transaction_set) <= Capacity)

\* root has just been read on a block with more than 2^TreeDepth transactions.
C8_Witness ==
    /\ last.op = "root"
    /\ Len(Self(last.b).transaction_set) > Capacity
    /\ last.out.kind = "TreeDepthExceeded"

\* C9: a change of the transactions or of the number of a signed block
\* leaves sig as it was and raises nothing; when signer is read while sig is a
\* signature over a hash other than the block's current one, it returns an
\* address that is not the signing key's; after sign(k) returns, signer is the
\* address of k.
C9_MutationInvalidatesSignature ==
    [][\A b \in BlockIds :
          /\ (last'.b = b /\ last'.op \in Mutations /\ Signed(b))
             => (blocks'[b].sig = blocks[b].sig /\ last'.out.kind = "ok")
          /\ (/\ last'.b = b /\ last'.op = "signer" /\ Signed(b)
              /\ hash(Self(b)).kind = "ok"
              /\ blocks[b].sig.digest # hash(Self(b)).val)
             => /\ last'.out.kind = "ok"
                /\ last'.out.val # address_of(blocks[b].sig.key)
                /\ blocks'[b].sig = blocks[b].sig
          /\ (last'.b = b /\ last'.op = "sign" /\ last'.out.kind = "ok"
                /\ Live(b))
             => signer(SelfNext(b)) = Ok(address_of(last'.arg))]_vars

\* signer has just been read on a block changed after k1 signed it: sig is
\* still k1's signature over the earlier hash and the address returned is not
\* k1's.
C9_Witness ==
    /\ last.op = "signer"
    /\ Signed(last.b)
    /\ blocks[last.b].sig.key = "k1"
    /\ blocks[last.b].sig.digest # hash(Self(last.b)).val
    /\ last.out.kind = "ok"
    /\ last.out.val # address_of("k1")

\* C10: a call of sign either returns with sig the signature of the key over
\* the block's hash, or raises with sig, transaction_set and number as they
\* were; in both cases transaction_set and number are untouched.
C10_SignAllOrNothing ==
    [][\A b \in BlockIds :
          (Live(b) /\ last'.op = "sign" /\ last'.b = b)
             => /\ lists' = lists
                /\ blocks'[b].number = blocks[b].number
                /\ blocks'[b].transaction_set = blocks[b].transaction_set
                /\ \/ /\ last'.out.kind = "ok"
                      /\ hash(Self(b)).kind = "ok"
                      /\ blocks'[b].sig = sign(hash(SelfNext(b)).val, last'.arg)
                   \/ /\ last'.out.kind # "ok"
                      /\ hash(Self(b)).kind # "ok"
                      /\ blocks'[b].sig = blocks[b].sig]_vars

\* sign has just raised on a block that was signed before; the earlier
\* signature is still there.
C10_Witness ==
    /\ last.op = "sign"
    /\ last.out.kind = "EncodingError"
    /\ Signed(last.b)

====
